---- MODULE Spec2Model ----
(***************************************************************************)
(* Slang term analyzer: the two-stage pipeline of slang_analyzer.py (CLI)  *)
(* and dashboard.py (Streamlit).  A generation stage issues sample_size    *)
(* calls to Claude 3.5 Haiku, a structuring stage issues one call to       *)
(* Claude Sonnet 4 per surviving generation output, and an aggregator      *)
(* counts the structured records.  Both stages run their calls through     *)
(* asyncio.gather behind an asyncio.Semaphore(10).                         *)
(*                                                                         *)
(* Texts (model output, exception messages, the slang term) are sequences  *)
(* of one-character strings so that startswith, lower, upper and strip are *)
(* computed rather than assumed.  Python dicts are functions whose DOMAIN  *)
(* is the set of keys.                                                     *)
(***************************************************************************)
EXTENDS Integers, Sequences, FiniteSets, TLC

VARIABLES
    surface,        \* "cli" (slang_analyzer.main) or "dashboard" (dashboard.main)
    key_set,        \* whether ANTHROPIC_API_KEY is set in the environment
    slang_term,     \* the term handed to the pipeline
    sample_size,    \* number of generation calls requested
    haiku_mock,     \* behaviours the generation endpoint shows in this run
    sonnet_mock,    \* behaviours the structuring endpoint shows in this run
    faults_left,    \* how many more calls the endpoints may fail in this run
    pc,             \* position of the pipeline coroutine / main
    client,         \* "none", "open" or "closed"
    stage,          \* which batch the tasks belong to: "none", "haiku", "sonnet"
    tasks,          \* the gathered tasks of the current batch, in input order
    sem_value,      \* asyncio.Semaphore._value of the current batch
    results,        \* what asyncio.gather returned for the current batch
    haiku_results,  \* return value of analyze_with_haiku
    parsed_results, \* return value of parse_with_sonnet
    calls,          \* per endpoint: calls issued, in flight, raised (remote side)
    valid_results,  \* aggregation: the records that were counted
    top_meanings,   \* aggregation: Counter.most_common(..) of the primary field
    displayed,      \* dashboard: the slices of the overall pie chart
    letter_aggregation, \* dashboard: per-letter lists of meanings
    output,         \* what was printed / shown, in order
    exited,         \* the CLI process has ended
    exit_code,      \* its exit status
    letter_chart,   \* dashboard: the selected letter and the slices of its pie
    session_state,  \* dashboard: st.session_state, key -> value
    analyze_button, \* dashboard: the Analyze button was clicked for this rerun
    shown           \* dashboard: the results handed to display_results, if any

vars == <<surface, key_set, slang_term, sample_size, haiku_mock, sonnet_mock,
          faults_left, pc,
          client, stage, tasks, sem_value, results, haiku_results, parsed_results,
          calls, valid_results, top_meanings, displayed, letter_aggregation,
          output, exited, exit_code,
          letter_chart, session_state, analyze_button, shown>>

-----------------------------------------------------------------------------
(* Bounds of the model *)

\* largest sample size of the pipeline specification
MaxRuns == 3
\* most calls that fail in a run at or over the semaphore's limit
MaxFailures == 1
\* longest list of valid records the aggregation specification draws from a
\* few meanings
MaxRecords == 6
\* longest list of records of every kind the aggregation specification draws
MaxMixed == 2

(* Program constants *)

\* asyncio.Semaphore(10)
SEMAPHORE_LIMIT == 10
\* Counter(meanings).most_common(5) of the CLI
CLI_TOP_K == 5
\* meaning_counts.most_common(8) of the dashboard
DASH_TOP_N == 8
LETTER_TOP_N == 6
\* st.slider(min_value=10, max_value=200, step=10)
SLIDER_MIN == 10
SLIDER_MAX == 200
SLIDER_STEP == 10

-----------------------------------------------------------------------------
(* Text *)

ToSet(s) == {s[i] : i \in DOMAIN s}

\* str.lower() on the characters the model uses
LowerChar(c) ==
    CASE c = "Y" -> "y" [] c = "O" -> "o" [] c = "L" -> "l"
      [] c = "S" -> "s" [] c = "M" -> "m" [] c = "H" -> "h"
      [] OTHER -> c

\* str.upper() on the characters the model uses
UpperChar(c) ==
    CASE c = "y" -> "Y" [] c = "o" -> "O" [] c = "l" -> "L"
      [] c = "s" -> "S" [] c = "m" -> "M" [] c = "h" -> "H"
      [] OTHER -> c

Lower(s) == [i \in DOMAIN s |-> LowerChar(s[i])]
Upper(s) == [i \in DOMAIN s |-> UpperChar(s[i])]

\* str.strip(): drop leading and trailing blanks
RECURSIVE LStrip(_)
LStrip(s) == IF s # <<>> /\ Head(s) = " " THEN LStrip(Tail(s)) ELSE s
RECURSIVE RStrip(_)
RStrip(s) == IF s # <<>> /\ s[Len(s)] = " " THEN RStrip(SubSeq(s, 1, Len(s) - 1)) ELSE s
Strip(s) == RStrip(LStrip(s))

\* str.startswith(prefix)
StartsWith(s, prefix) ==
    /\ Len(s) >= Len(prefix)
    /\ SubSeq(s, 1, Len(prefix)) = prefix

\* the marker of the filter of analyze_with_haiku: "Error:"
ERROR_MARKER == <<"E", "r", "r", "o", "r", ":">>

\* f"Error: {str(e)}"
ErrorText(msg) == ERROR_MARKER \o <<" ">> \o msg

-----------------------------------------------------------------------------
(* The remote endpoints.  A behaviour is what one call to the endpoint does; *)
(* the sets haiku_mock and sonnet_mock hold the behaviours a run may see.    *)

\* exception texts, str(e)
MSG_TIMEOUT == <<"t", "i", "m", "e", "o", "u", "t">>

\* generated texts; TEXT_MARKED is model output that itself opens with "Error:"
TEXT_A == <<"A">>
TEXT_B == <<"B">>
TEXT_MARKED == <<"E", "r", "r", "o", "r", ":", " ", "E">>

HaikuReturns(text) == [raises |-> FALSE, body |-> text]
HaikuRaises(msg) == [raises |-> TRUE, body |-> msg]

\* primary meanings the structuring model may extract
MEANING_1 == "You Only Live Once"
MEANING_2 == "Yelling On Live Outlets"
MEANINGS == {MEANING_1, MEANING_2, "You Obviously Love Oreos",
             "Young Old Lazy Owls", "Your Own Life Only", "Yes Or Later Ok"}

\* nine distinct meanings, in the order a sample may first produce them
MANY_MEANINGS == <<MEANING_1, MEANING_2, "You Obviously Love Oreos",
                   "Young Old Lazy Owls", "Your Own Life Only", "Yes Or Later Ok",
                   "Yams Over Lima Onions", "Yetis Often Lose Orbit",
                   "Yawning Ostriches Look Odd">>

SonnetRaises(msg) == [kind |-> "raise", msg |-> msg, meaning |-> ""]
SonnetNoToolUse == [kind |-> "text_only", msg |-> <<>>, meaning |-> ""]
SonnetToolUse(meaning) == [kind |-> "tool_use", msg |-> <<>>, meaning |-> meaning]
\* a tool call whose input lacks primary_meaning (the schema is not enforced)
SonnetToolUsePartial == [kind |-> "tool_use_partial", msg |-> <<>>, meaning |-> ""]

\* every behaviour of the generation endpoint the model knows
HAIKU_BEHAVIOURS ==
    {HaikuReturns(TEXT_A), HaikuReturns(TEXT_B), HaikuReturns(TEXT_MARKED),
     HaikuRaises(MSG_TIMEOUT)}

\* every behaviour of the structuring endpoint the model knows
SONNET_BEHAVIOURS ==
    {SonnetToolUse(MEANING_1), SonnetToolUse(MEANING_2), SonnetToolUsePartial,
     SonnetNoToolUse, SonnetRaises(MSG_TIMEOUT)}

-----------------------------------------------------------------------------
(* analyze_single_haiku *)

\* try: return message.content[0].text / except Exception as e: return f"Error: {e}"
AnalyzeSingleHaiku(reply) ==
    IF reply.raises THEN ErrorText(reply.body) ELSE reply.body

-----------------------------------------------------------------------------
(* parse_single_sonnet *)

\* letter_properties: a dict filled letter by letter from slang_term.lower()
RECURSIVE LetterPropertiesFrom(_, _)
LetterPropertiesFrom(letters, props) ==
    IF letters = <<>> THEN props
    ELSE LetterPropertiesFrom(
            Tail(letters),
            [k \in DOMAIN props \cup {Head(letters)} |->
                IF k = Head(letters)
                THEN [type |-> "string", description |-> UpperChar(k)]
                ELSE props[k]])

LetterProperties(term) == LetterPropertiesFrom(Lower(term), <<>>)

\* parse_tool["input_schema"]
InputSchema(term) ==
    [properties |->
        [term |-> [type |-> "string"],
         primary_meaning |-> [type |-> "string"],
         letter_breakdown |->
            [type |-> "object",
             properties |-> LetterProperties(term),
             required |-> DOMAIN LetterProperties(term)]],
     required |-> {"term", "primary_meaning", "letter_breakdown"}]

\* the word the structuring model gives for a letter under a meaning
LetterWord(meaning, letter) == <<meaning, letter>>

\* message.content of a structuring call that returned
SonnetContent(b, term) ==
    LET schema == InputSchema(term)
        breakdown ==
            [k \in schema.properties.letter_breakdown.required |->
                LetterWord(b.meaning, k)]
    IN  CASE b.kind = "tool_use" ->
                <<[type |-> "text"],
                  [type |-> "tool_use",
                   input |-> [term |-> term, primary_meaning |-> b.meaning,
                              letter_breakdown |-> breakdown]]>>
          [] b.kind = "tool_use_partial" ->
                <<[type |-> "tool_use",
                   input |-> [term |-> term, letter_breakdown |-> breakdown]]>>
          [] OTHER -> <<[type |-> "text"]>>

\* for content_block in message.content: if content_block.type == "tool_use": return
RECURSIVE FirstToolUse(_, _)
FirstToolUse(content, fallback) ==
    IF content = <<>> THEN fallback
    ELSE IF Head(content).type = "tool_use" THEN Head(content).input
    ELSE FirstToolUse(Tail(content), fallback)

\* the record returned when no content block is a tool_use
NoToolUseRecord(term) ==
    [term |-> term, primary_meaning |-> "Parse failed - no tool use",
     letter_breakdown |-> <<>>]

\* an except branch that forgets the error field
ParseFailedUnflagged(term, msg) == [term |-> term, primary_meaning |-> "Parse failed"]

\* the record returned from the except branch
ParseFailedRecord(term, msg) ==
    [term |-> term, primary_meaning |-> "Parse failed", error |-> msg]

ParseSingleSonnet(b, term) ==
    IF b.kind = "raise" THEN ParseFailedRecord(term, b.msg)
    ELSE FirstToolUse(SonnetContent(b, term), NoToolUseRecord(term))

-----------------------------------------------------------------------------
(* The bounded fan-out: asyncio.gather over run_with_semaphore(task) *)

\* a coroutine object handed to gather: created, not yet run
NewTask(arg) == [st |-> "new", arg |-> arg, out |-> <<>>, raised |-> FALSE]

TasksIn(state) == {i \in DOMAIN tasks : tasks[i].st = state}

Min(S) == CHOOSE x \in S : \A y \in S : x <= y

\* a gate that admits everybody
CanAcquireAlways(value, waiting) == TRUE

\* Semaphore.acquire() returns at once: a slot is free and nobody queues for it
CanAcquire(value, waiting) == value > 0 /\ waiting = {}

\* a gather that resolves with its first finished child
GatherReadyAny(ts) == \E i \in DOMAIN ts : ts[i].st = "done"

\* gather's future resolves when every child task is done
GatherReady(ts) == \A i \in DOMAIN ts : ts[i].st = "done"

\* a gather that hands the results back in another order
GatherResultsReversed(ts) == [i \in DOMAIN ts |-> ts[Len(ts) + 1 - i].out]

\* gather returns the children's results in the order of the awaitables
GatherResults(ts) == [i \in DOMAIN ts |-> ts[i].out]

\* a slot that is given back only by a call that returned
ReleaseUnlessRaised(value, raised) == IF raised THEN value ELSE value + 1

\* leaving "async with semaphore": the slot is given back when the helper
\* returns, whether its remote call returned or raised
Release(value, raised) == value + 1

\* a call that is sent a second time before its task settles
IssueTwice(endpoint) ==
    [calls EXCEPT ![endpoint].issued = @ + 2, ![endpoint].in_flight = @ + 1]

Issue(endpoint) ==
    [calls EXCEPT ![endpoint].issued = @ + 1, ![endpoint].in_flight = @ + 1]

Settle(endpoint, raised) ==
    [calls EXCEPT ![endpoint].in_flight = @ - 1,
                  ![endpoint].raised = @ + (IF raised THEN 1 ELSE 0)]

\* valid_results = [r for r in results if not r.startswith("Error:")]
FilterErrors(rs) == SelectSeq(rs, LAMBDA r : ~StartsWith(r, ERROR_MARKER))

-----------------------------------------------------------------------------
(* The aggregator *)

HasKey(r, k) == k \in DOMAIN r

\* r.get(k, default)
Get(r, k, default) == IF HasKey(r, k) THEN r[k] ELSE default

\* slang_analyzer.main: [r for r in parsed_results if 'error' not in r]
CliValid(r) == ~HasKey(r, "error")

\* display_results: r.get("primary_meaning") and "error" not in r
DashValid(r) == Get(r, "primary_meaning", "") # "" /\ ~HasKey(r, "error")

RECURSIVE MapGet(_, _, _)
MapGet(rs, k, default) ==
    IF rs = <<>> THEN <<>>
    ELSE <<Get(Head(rs), k, default)>> \o MapGet(Tail(rs), k, default)

IndexOfKey(c, v) ==
    LET hits == {i \in DOMAIN c : c[i][1] = v}
    IN  IF hits = {} THEN 0 ELSE Min(hits)

\* Counter(iterable): a dict in insertion order, as a sequence of <<key, count>>
RECURSIVE CounterFrom(_, _)
CounterFrom(items, c) ==
    IF items = <<>> THEN c
    ELSE LET v == Head(items)
             at == IndexOfKey(c, v)
         IN  CounterFrom(Tail(items),
                         IF at = 0 THEN Append(c, <<v, 1>>)
                         ELSE [c EXCEPT ![at] = <<v, @[2] + 1>>])

Counter(items) == CounterFrom(items, <<>>)

\* a descending sort that puts later entries first among equal counts
InsertBeforeUnstable(x, sorted) ==
    LET later == {i \in DOMAIN sorted : sorted[i][2] < x[2]}
        at == IF later = {} THEN Len(sorted) + 1 ELSE CHOOSE a \in later : \A b \in later : a <= b
    IN  SubSeq(sorted, 1, at - 1) \o <<x>> \o SubSeq(sorted, at, Len(sorted))

\* where a stable descending sort puts an entry that preceded all of `sorted`
InsertBefore(x, sorted) ==
    LET later == {i \in DOMAIN sorted : sorted[i][2] <= x[2]}
        at == IF later = {} THEN Len(sorted) + 1 ELSE Min(later)
    IN  SubSeq(sorted, 1, at - 1) \o <<x>> \o SubSeq(sorted, at, Len(sorted))

\* sorted(c.items(), key=itemgetter(1), reverse=True)
RECURSIVE SortedByCount(_)
SortedByCount(c) ==
    IF c = <<>> THEN <<>> ELSE InsertBefore(Head(c), SortedByCount(Tail(c)))

Take(s, n) == SubSeq(s, 1, IF n < Len(s) THEN n ELSE Len(s))
Drop(s, n) == SubSeq(s, n + 1, Len(s))

\* Counter.most_common(n)
MostCommon(c, n) == Take(SortedByCount(c), n)

RECURSIVE SumCounts(_)
SumCounts(c) == IF c = <<>> THEN 0 ELSE Head(c)[2] + SumCounts(Tail(c))

\* display_results: the slices of the "Top Interpretations" pie
PieSlices(top, keep, limit) ==
    IF Len(top) > limit
    THEN LET others_count == SumCounts(Drop(top, keep))
         IN  IF others_count > 0
             THEN Append(Take(top, keep), <<"Others", others_count>>)
             ELSE Take(top, keep)
    ELSE top

\* display_results: letter_aggregation[letter] lists the meanings of that key
RECURSIVE LetterMeanings(_, _)
LetterMeanings(rs, letter) ==
    IF rs = <<>> THEN <<>>
    ELSE LET breakdown == Get(Head(rs), "letter_breakdown", <<>>)
         IN  (IF letter \in DOMAIN breakdown THEN <<breakdown[letter]>> ELSE <<>>)
             \o LetterMeanings(Tail(rs), letter)

LetterAggregation(rs) ==
    LET letters == UNION {DOMAIN Get(rs[i], "letter_breakdown", <<>>) : i \in DOMAIN rs}
    IN  [l \in letters |-> LetterMeanings(rs, l)]

\* display_results: the pie of the selected letter, empty when the letter has
\* no data ("No data available for letter ..")
LetterChart(aggregation, selected_letter) ==
    [letter |-> selected_letter,
     slices |-> IF selected_letter \in DOMAIN aggregation
                THEN PieSlices(MostCommon(Counter(aggregation[selected_letter]), LETTER_TOP_N), 4, 5)
                ELSE <<>>]

-----------------------------------------------------------------------------
(* Initial states *)

\* what the user types: sys.argv[1] of the CLI, the text_input of the dashboard
RAW_TERMS == {<<"Y", "O", "L", "O">>, <<"s", "m", "h", " ">>}

\* dashboard.main: st.text_input(...).upper().strip(); the CLI takes the term as is
TermOf(surf, raw) == IF surf = "cli" THEN raw ELSE Strip(Upper(raw))

\* --sample-size is any int; the slider gives 10, 20, .., 200
SampleSizeOk(surf, n) ==
    surf = "cli" \/ (n >= SLIDER_MIN /\ n <= SLIDER_MAX /\ (n - SLIDER_MIN) % SLIDER_STEP = 0)

NoLetterChart == [letter |-> "", slices |-> <<>>]

NoCalls == [e \in {"haiku", "sonnet"} |-> [issued |-> 0, in_flight |-> 0, raised |-> 0]]

InitRun(sizes, surfaces, raws, hm, sm, faults) ==
    /\ surface \in surfaces
    /\ key_set \in BOOLEAN
    /\ \E raw \in raws : slang_term = TermOf(surface, raw)
    /\ sample_size \in {n \in sizes : SampleSizeOk(surface, n)}
    /\ haiku_mock = hm
    /\ sonnet_mock = sm
    /\ faults_left = faults
    /\ pc = "main"
    /\ client = "none"
    /\ stage = "none"
    /\ tasks = <<>>
    /\ sem_value = 0
    /\ results = <<>>
    /\ haiku_results = <<>>
    /\ parsed_results = <<>>
    /\ calls = NoCalls
    /\ valid_results = <<>>
    /\ top_meanings = <<>>
    /\ displayed = <<>>
    /\ letter_aggregation = <<>>
    /\ output = <<>>
    /\ exited = FALSE
    /\ exit_code = 0
    /\ letter_chart = NoLetterChart
    /\ session_state = <<>>
    /\ analyze_button = (surface = "dashboard")
    /\ shown = <<>>

-----------------------------------------------------------------------------
(* Actions *)

\* get_api_key() and anthropic.AsyncAnthropic(api_key=api_key).  A missing key
\* raises ValueError: slang_analyzer.main catches it, prints "Error: .." and
\* returns, so the interpreter exits with status 0; dashboard.main shows
\* st.error and returns.
Setup ==
    /\ pc = "main"
    /\ IF key_set
       THEN /\ client' = "open"
            /\ pc' = "haiku"
            /\ UNCHANGED <<output, exited>>
       ELSE /\ output' = Append(output, "error")
            /\ exited' = (surface = "cli")
            /\ pc' = "exit"
            /\ UNCHANGED client
    /\ exit_code' = 0
    /\ UNCHANGED <<session_state, analyze_button, shown, letter_chart,
                   surface, key_set, slang_term, sample_size, haiku_mock, sonnet_mock,
                   faults_left,
                   stage, tasks, sem_value, results, haiku_results, parsed_results,
                   calls, valid_results, top_meanings, displayed, letter_aggregation>>

\* analyze_with_haiku: tasks = [...], semaphore = asyncio.Semaphore(10), gather(...)
SpawnHaiku ==
    /\ pc = "haiku"
    /\ tasks' = [i \in 1..sample_size |-> NewTask(slang_term)]
    /\ sem_value' = SEMAPHORE_LIMIT
    /\ stage' = "haiku"
    /\ pc' = "haiku_run"
    /\ UNCHANGED <<session_state, analyze_button, shown, letter_chart,
                   surface, key_set, slang_term, sample_size, haiku_mock, sonnet_mock,
                   faults_left,
                   client, results, haiku_results, parsed_results, calls,
                   valid_results, top_meanings, displayed, letter_aggregation,
                   output, exited, exit_code>>

\* run_with_semaphore, first step of a child task: "async with semaphore".  The
\* children take their first step in the order gather created them; the one
\* that gets a slot goes on to the remote call, the others queue on the gate.
StartTask ==
    /\ pc \in {"haiku_run", "sonnet_run"}
    /\ TasksIn("new") # {}
    /\ LET i == Min(TasksIn("new"))
       IN  IF CanAcquire(sem_value, TasksIn("waiting"))
           THEN /\ sem_value' = sem_value - 1
                /\ tasks' = [tasks EXCEPT ![i].st = "inflight"]
                /\ calls' = Issue(stage)
           ELSE /\ tasks' = [tasks EXCEPT ![i].st = "waiting"]
                /\ UNCHANGED <<sem_value, calls>>
    /\ UNCHANGED <<session_state, analyze_button, shown, letter_chart,
                   surface, key_set, slang_term, sample_size, haiku_mock, sonnet_mock,
                   faults_left,
                   pc, client, stage, results, haiku_results, parsed_results,
                   valid_results, top_meanings, displayed, letter_aggregation,
                   output, exited, exit_code>>

\* Semaphore.acquire() of a queued task returns: the longest-waiting task takes
\* the slot a release() freed and goes on to the remote call.
AdmitWaiter ==
    /\ pc \in {"haiku_run", "sonnet_run"}
    /\ TasksIn("new") = {}
    /\ TasksIn("waiting") # {}
    /\ sem_value > 0
    /\ LET i == Min(TasksIn("waiting"))
       IN  /\ sem_value' = sem_value - 1
           /\ tasks' = [tasks EXCEPT ![i].st = "inflight"]
           /\ calls' = Issue(stage)
    /\ UNCHANGED <<session_state, analyze_button, shown, letter_chart,
                   surface, key_set, slang_term, sample_size, haiku_mock, sonnet_mock,
                   faults_left,
                   pc, client, stage, results, haiku_results, parsed_results,
                   valid_results, top_meanings, displayed, letter_aggregation,
                   output, exited, exit_code>>

\* the remote call of generation task i returns or raises: analyze_single_haiku
\* returns its string, "async with" releases the slot, the child task is done
HaikuReply(i, reply) ==
    /\ pc = "haiku_run"
    /\ TasksIn("new") = {}
    /\ i \in TasksIn("inflight")
    /\ reply.raises => faults_left > 0
    /\ faults_left' = faults_left - (IF reply.raises THEN 1 ELSE 0)
    /\ tasks' = [tasks EXCEPT ![i].st = "done",
                              ![i].out = AnalyzeSingleHaiku(reply),
                              ![i].raised = reply.raises]
    /\ sem_value' = Release(sem_value, reply.raises)
    /\ calls' = Settle("haiku", reply.raises)
    /\ UNCHANGED <<session_state, analyze_button, shown, letter_chart,
                   surface, key_set, slang_term, sample_size, haiku_mock, sonnet_mock,
                   
                   pc, client, stage, results, haiku_results, parsed_results,
                   valid_results, top_meanings, displayed, letter_aggregation,
                   output, exited, exit_code>>

\* results = await asyncio.gather(...) of analyze_with_haiku
GatherHaiku ==
    /\ pc = "haiku_run"
    /\ TasksIn("new") = {}
    /\ GatherReady(tasks)
    /\ results' = GatherResults(tasks)
    /\ pc' = "haiku_gathered"
    /\ UNCHANGED <<session_state, analyze_button, shown, letter_chart,
                   surface, key_set, slang_term, sample_size, haiku_mock, sonnet_mock,
                   faults_left,
                   client, stage, tasks, sem_value, haiku_results, parsed_results,
                   calls, valid_results, top_meanings, displayed, letter_aggregation,
                   output, exited, exit_code>>

\* analyze_with_haiku filters and returns; its locals are gone
FilterHaiku ==
    /\ pc = "haiku_gathered"
    /\ haiku_results' = FilterErrors(results)
    /\ results' = <<>>
    /\ tasks' = <<>>
    /\ sem_value' = 0
    /\ stage' = "none"
    /\ pc' = "sonnet"
    /\ UNCHANGED <<session_state, analyze_button, shown, letter_chart,
                   surface, key_set, slang_term, sample_size, haiku_mock, sonnet_mock,
                   faults_left,
                   client, parsed_results, calls, valid_results, top_meanings,
                   displayed, letter_aggregation, output, exited, exit_code>>

\* parse_with_sonnet: one task per haiku result, a fresh Semaphore(10), gather(...)
SpawnSonnet ==
    /\ pc = "sonnet"
    /\ tasks' = [i \in DOMAIN haiku_results |-> NewTask(haiku_results[i])]
    /\ sem_value' = SEMAPHORE_LIMIT
    /\ stage' = "sonnet"
    /\ pc' = "sonnet_run"
    /\ UNCHANGED <<session_state, analyze_button, shown, letter_chart,
                   surface, key_set, slang_term, sample_size, haiku_mock, sonnet_mock,
                   faults_left,
                   client, results, haiku_results, parsed_results, calls,
                   valid_results, top_meanings, displayed, letter_aggregation,
                   output, exited, exit_code>>

\* the remote call of structuring task i returns or raises: parse_single_sonnet
\* returns its record, "async with" releases the slot, the child task is done
SonnetReply(i, b) ==
    /\ pc = "sonnet_run"
    /\ TasksIn("new") = {}
    /\ i \in TasksIn("inflight")
    /\ b.kind = "raise" => faults_left > 0
    /\ faults_left' = faults_left - (IF b.kind = "raise" THEN 1 ELSE 0)
    /\ tasks' = [tasks EXCEPT ![i].st = "done",
                              ![i].out = ParseSingleSonnet(b, slang_term),
                              ![i].raised = (b.kind = "raise")]
    /\ sem_value' = Release(sem_value, b.kind = "raise")
    /\ calls' = Settle("sonnet", b.kind = "raise")
    /\ UNCHANGED <<session_state, analyze_button, shown, letter_chart,
                   surface, key_set, slang_term, sample_size, haiku_mock, sonnet_mock,
                   
                   pc, client, stage, results, haiku_results, parsed_results,
                   valid_results, top_meanings, displayed, letter_aggregation,
                   output, exited, exit_code>>

\* parsed_results = await asyncio.gather(...) of parse_with_sonnet
GatherSonnet ==
    /\ pc = "sonnet_run"
    /\ TasksIn("new") = {}
    /\ GatherReady(tasks)
    /\ results' = GatherResults(tasks)
    /\ pc' = "sonnet_gathered"
    /\ UNCHANGED <<session_state, analyze_button, shown, letter_chart,
                   surface, key_set, slang_term, sample_size, haiku_mock, sonnet_mock,
                   faults_left,
                   client, stage, tasks, sem_value, haiku_results, parsed_results,
                   calls, valid_results, top_meanings, displayed, letter_aggregation,
                   output, exited, exit_code>>

\* parse_with_sonnet returns parsed_results; its locals are gone
ReturnParsed ==
    /\ pc = "sonnet_gathered"
    /\ parsed_results' = results
    /\ results' = <<>>
    /\ tasks' = <<>>
    /\ sem_value' = 0
    /\ stage' = "none"
    /\ pc' = "close"
    /\ UNCHANGED <<session_state, analyze_button, shown, letter_chart,
                   surface, key_set, slang_term, sample_size, haiku_mock, sonnet_mock,
                   faults_left,
                   client, haiku_results, calls, valid_results, top_meanings,
                   displayed, letter_aggregation, output, exited, exit_code>>

\* finally: await client.close(), then the pipeline returns its dict
CloseClient ==
    /\ pc = "close"
    /\ client' = "closed"
    /\ pc' = "summary"
    /\ UNCHANGED <<session_state, analyze_button, shown, letter_chart,
                   surface, key_set, slang_term, sample_size, haiku_mock, sonnet_mock,
                   faults_left,
                   stage, tasks, sem_value, results, haiku_results, parsed_results,
                   calls, valid_results, top_meanings, displayed, letter_aggregation,
                   output, exited, exit_code>>

\* slang_analyzer.main after asyncio.run: the "Top interpretations" summary; main
\* returns and the interpreter exits with status 0
CliSummary ==
    /\ pc = "summary"
    /\ surface = "cli"
    /\ LET valid == SelectSeq(parsed_results, CliValid)
           meanings == MapGet(valid, "primary_meaning", "")
       IN  /\ valid_results' = valid
           /\ top_meanings' = MostCommon(Counter(meanings), CLI_TOP_K)
    /\ output' = Append(output, "summary")
    /\ exited' = TRUE
    /\ exit_code' = 0
    /\ pc' = "exit"
    /\ UNCHANGED <<session_state, analyze_button, shown, letter_chart,
                   surface, key_set, slang_term, sample_size, haiku_mock, sonnet_mock,
                   faults_left,
                   client, stage, tasks, sem_value, results, haiku_results,
                   parsed_results, calls, displayed, letter_aggregation>>

\* dashboard.display_results on the results just stored in the session; the
\* letter of the second chart is the one chosen in the selectbox
DisplayResults ==
    /\ pc = "summary"
    /\ surface = "dashboard"
    /\ LET valid == SelectSeq(parsed_results, DashValid)
           meaning_counts == Counter(MapGet(valid, "primary_meaning", ""))
           top == MostCommon(meaning_counts, DASH_TOP_N)
           aggregation == LetterAggregation(valid)
       IN  IF valid = <<>>
           THEN /\ output' = Append(output, "no_data")
                /\ UNCHANGED <<valid_results, top_meanings, displayed, letter_aggregation,
                               letter_chart>>
           ELSE /\ valid_results' = valid
                /\ top_meanings' = top
                /\ displayed' = PieSlices(top, 5, 6)
                /\ letter_aggregation' = aggregation
                /\ \E selected_letter \in ToSet(Lower(slang_term)) :
                      letter_chart' = LetterChart(aggregation, selected_letter)
                /\ output' = Append(output, "charts")
    /\ pc' = "exit"
    /\ UNCHANGED <<session_state, analyze_button, shown,
                   surface, key_set, slang_term, sample_size, haiku_mock, sonnet_mock,
                   faults_left,
                   client, stage, tasks, sem_value, results, haiku_results,
                   parsed_results, calls, exited, exit_code>>

Next ==
    \/ Setup
    \/ SpawnHaiku
    \/ StartTask
    \/ AdmitWaiter
    \/ \E i \in DOMAIN tasks : \E reply \in haiku_mock : HaikuReply(i, reply)
    \/ GatherHaiku
    \/ FilterHaiku
    \/ SpawnSonnet
    \/ \E i \in DOMAIN tasks : \E b \in sonnet_mock : SonnetReply(i, b)
    \/ GatherSonnet
    \/ ReturnParsed
    \/ CloseClient
    \/ CliSummary
    \/ DisplayResults

-----------------------------------------------------------------------------
(* Specifications *)

\* the endpoints of a run in which a call returns or raises
FLAKY_HAIKU == {HaikuReturns(TEXT_A), HaikuRaises(MSG_TIMEOUT)}
FLAKY_SONNET == {SonnetToolUse(MEANING_1), SonnetRaises(MSG_TIMEOUT)}

\* The pipeline.  Small CLI runs against endpoints that show every behaviour,
\* every one of the at most 2 * sample_size calls free to fail; and runs of both
\* surfaces at and one over the semaphore's limit (the slider starts at
\* SLIDER_MIN), whose calls return or raise, at most MaxFailures of them raising.
Init ==
    \/ InitRun(0..MaxRuns, {"cli"}, RAW_TERMS, HAIKU_BEHAVIOURS, SONNET_BEHAVIOURS,
               2 * MaxRuns)
    \/ InitRun(SEMAPHORE_LIMIT..(SEMAPHORE_LIMIT + 1), {"cli", "dashboard"},
               {<<"Y", "O", "L", "O">>}, FLAKY_HAIKU, FLAKY_SONNET, MaxFailures)

Spec == Init /\ [][Next]_vars

\* The aggregator alone: the pipeline has returned parsed_results and the
\* client is closed.  A sample of SLIDER_MIN calls, of which all but
\* Len(parsed_results) generation calls raised, leaves any list of records up
\* to that length; the lists drawn are
\*   - valid records of a few meanings, up to MaxRecords of them,
\*   - every order of one record per meaning, then at most one more record,
\*   - records of every kind the structuring stage returns, up to MaxMixed.
YOLO == <<"Y", "O", "L", "O">>

SeqsUpTo(S, n) == UNION {[1..k -> S] : k \in 0..n}

Orderings(S) ==
    {q \in [1..Cardinality(S) -> S] : \A i, j \in DOMAIN q : i # j => q[i] # q[j]}

NarrowLists == SeqsUpTo({MEANING_1, MEANING_2, "You Obviously Love Oreos"}, MaxRecords)

WideLists == {q \o extra : q \in Orderings(MEANINGS), extra \in SeqsUpTo(MEANINGS, 1)}

\* more distinct meanings than either chart keeps: the first 7, 8 or 9 of
\* MANY_MEANINGS once each, then possibly one of them again
LongLists ==
    {SubSeq(MANY_MEANINGS, 1, n) \o extra :
        n \in (LETTER_TOP_N + 1)..Len(MANY_MEANINGS),
        extra \in SeqsUpTo(ToSet(MANY_MEANINGS), 1)}

BehaviourLists ==
    {[i \in DOMAIN ms |-> SonnetToolUse(ms[i])] :
        ms \in NarrowLists \cup WideLists \cup LongLists}
    \cup SeqsUpTo(SONNET_BEHAVIOURS, MaxMixed)

InitAgg ==
    /\ surface \in {"cli", "dashboard"}
    /\ key_set = TRUE
    /\ slang_term = YOLO
    /\ sample_size = SLIDER_MIN
    /\ haiku_mock = HAIKU_BEHAVIOURS
    /\ sonnet_mock = SONNET_BEHAVIOURS
    /\ \E bs \in BehaviourLists :
          LET failed == Cardinality({i \in DOMAIN bs : bs[i].kind = "raise"})
          IN  /\ parsed_results = [i \in DOMAIN bs |-> ParseSingleSonnet(bs[i], YOLO)]
              /\ haiku_results = [i \in DOMAIN bs |-> TEXT_A]
              /\ calls = [haiku |-> [issued |-> SLIDER_MIN, in_flight |-> 0,
                                     raised |-> SLIDER_MIN - Len(bs)],
                          sonnet |-> [issued |-> Len(bs), in_flight |-> 0,
                                      raised |-> failed]]
              /\ faults_left = 2 * SLIDER_MIN - (SLIDER_MIN - Len(bs)) - failed
    /\ pc = "summary"
    /\ client = "closed"
    /\ stage = "none"
    /\ tasks = <<>>
    /\ sem_value = 0
    /\ results = <<>>
    /\ valid_results = <<>>
    /\ top_meanings = <<>>
    /\ displayed = <<>>
    /\ letter_aggregation = <<>>
    /\ output = <<>>
    /\ exited = FALSE
    /\ exit_code = 0
    /\ letter_chart = NoLetterChart
    /\ session_state = <<>>
    /\ analyze_button = (surface = "dashboard")
    /\ shown = <<>>

NextAgg == CliSummary \/ DisplayResults

SpecAgg == InitAgg /\ [][NextAgg]_vars

-----------------------------------------------------------------------------
(* The pipeline under a fair schedule: the event loop runs every coroutine   *)
(* that can take a step, and every issued remote call returns or raises.     *)

\* run_analysis from its call to its return; what main does with the returned
\* records afterwards is not part of the pipeline
NextRun ==
    \/ Setup
    \/ SpawnHaiku
    \/ StartTask
    \/ AdmitWaiter
    \/ \E i \in DOMAIN tasks : \E reply \in haiku_mock : HaikuReply(i, reply)
    \/ GatherHaiku
    \/ FilterHaiku
    \/ SpawnSonnet
    \/ \E i \in DOMAIN tasks : \E b \in sonnet_mock : SonnetReply(i, b)
    \/ GatherSonnet
    \/ ReturnParsed
    \/ CloseClient

\* small batches in which either endpoint may fail, and a batch one larger than
\* the gate in which generation calls may fail while an operation queues
InitLive ==
    \/ InitRun(1..2, {"cli", "dashboard"}, {YOLO}, FLAKY_HAIKU, FLAKY_SONNET, 2)
    \/ InitRun({SEMAPHORE_LIMIT + 1}, {"cli"}, {YOLO}, FLAKY_HAIKU,
               {SonnetToolUse(MEANING_1)}, MaxFailures)

SpecLive == InitLive /\ [][NextRun]_vars /\ WF_vars(NextRun)

-----------------------------------------------------------------------------
(* The dashboard across reruns.  Streamlit runs dashboard.main from the top   *)
(* on every interaction; one step is one such rerun.  What the pipeline does *)
(* inside a rerun is followed by Spec; here it is the value it returns.      *)

\* "results_" and "letter_selector_", the prefixes of the session keys
RESULTS_PREFIX == <<"r", "e", "s", "u", "l", "t", "s", "_">>
SELECTOR_PREFIX == <<"l", "e", "t", "t", "e", "r", "_", "s", "e", "l", "e", "c", "t", "o", "r", "_">>

\* str(n) for n >= 0
DIGITS == <<"0", "1", "2", "3", "4", "5", "6", "7", "8", "9">>
RECURSIVE Str(_)
Str(n) == IF n < Len(DIGITS) THEN <<DIGITS[n + 1]>>
          ELSE Str(n \div Len(DIGITS)) \o <<DIGITS[(n % Len(DIGITS)) + 1]>>

\* f"results_{slang_term}_{sample_size}"
ResultsKey(term, size) == RESULTS_PREFIX \o term \o <<"_">> \o Str(size)

\* f"letter_selector_{slang_term}", the key of the selectbox
SelectorKey(term) == SELECTOR_PREFIX \o term

ResultsKeys(state) == {k \in DOMAIN state : StartsWith(k, RESULTS_PREFIX)}

Without(state, keys) == [k \in DOMAIN state \ keys |-> state[k]]

Store(state, key, value) ==
    [k \in DOMAIN state \cup {key} |-> IF k = key THEN value ELSE state[k]]

ClearNothing(state) == state

\* for key in list(st.session_state.keys()): if key.startswith("results_"): del ..
ClearResults(state) == Without(state, ResultsKeys(state))

ShowAnyEntry(state, key) ==
    IF ResultsKeys(state) = {} THEN <<>>
    ELSE <<state[CHOOSE k \in ResultsKeys(state) : TRUE]>>

\* if results_key in st.session_state: display_results(.., st.session_state[results_key])
ShowEntry(state, key) == IF key \in DOMAIN state THEN <<state[key]>> ELSE <<>>

\* the selectbox of display_results keeps its choice under its key while it is
\* rendered (first letter by default); Streamlit drops the state of a widget
\* that a rerun does not render
WithSelector(state, term, rendered) ==
    LET key == SelectorKey(term)
        kept == Without(state, {k \in DOMAIN state \ {key} : StartsWith(k, SELECTOR_PREFIX)})
    IN  IF ~rendered THEN Without(kept, {key})
        ELSE IF key \in DOMAIN kept THEN kept
        ELSE Store(kept, key, Lower(term)[1])

\* run_with_progress: the dict the pipeline returns for `size` generation calls
\* when every structuring call behaves as b
PipelineResults(term, size, b) ==
    [haiku_results |-> [i \in 1..size |-> TEXT_A],
     parsed_results |-> [i \in 1..size |-> ParseSingleSonnet(b, term)]]

\* run_analysis_with_progress: the dict, or None (here <<>>) on any exception
PIPELINE_FAILED == <<>>
PipelineOutcomes(term, size) ==
    {<<PipelineResults(term, size, b)>> : b \in FLAKY_SONNET} \cup {PIPELINE_FAILED}

\* what the sidebar can hold: text typed, slider position
DASH_RAW_TERMS == RAW_TERMS \cup {<<>>, <<" ">>}
DASH_SIZES == {SLIDER_MIN, SLIDER_MIN + SLIDER_STEP, SLIDER_MIN + 2 * SLIDER_STEP}

\* dashboard.main, one rerun
Rerun(raw, size, clicked, outcome) ==
    /\ surface = "dashboard"
    /\ pc \in {"main", "exit"}
    /\ LET term == Strip(Upper(raw))
           results_key == ResultsKey(term, size)
           cleared == ClearResults(session_state)
           finish(state, started, message) ==
               LET entry == IF message = "" THEN ShowEntry(state, results_key) ELSE <<>>
               IN  /\ session_state' = WithSelector(state, term, entry # <<>>)
                   /\ shown' = entry
                   /\ client' = IF started THEN "closed" ELSE "none"
                   /\ output' = IF message # "" THEN <<message>>
                                ELSE IF entry = <<>> THEN <<>>
                                ELSE IF SelectSeq(entry[1].parsed_results, DashValid) = <<>>
                                     THEN <<"no_data">>
                                     ELSE <<"charts">>
       IN  /\ slang_term' = term
           /\ sample_size' = size
           /\ analyze_button' = clicked
           /\ IF term = <<>> THEN finish(session_state, FALSE, "info")
              ELSE IF ~clicked THEN finish(session_state, FALSE, "")
              ELSE IF ~key_set THEN finish(cleared, FALSE, "error")
              ELSE IF outcome = PIPELINE_FAILED THEN finish(cleared, TRUE, "failed")
              ELSE finish(Store(cleared, results_key, outcome[1]), TRUE, "")
    /\ pc' = "exit"
    /\ UNCHANGED <<surface, key_set, haiku_mock, sonnet_mock, faults_left,
                   stage, tasks, sem_value, results, haiku_results, parsed_results,
                   calls, valid_results, top_meanings, displayed, letter_aggregation,
                   letter_chart, exited, exit_code>>

\* a fresh browser session: nothing typed, nothing clicked, nothing stored
InitDash ==
    /\ surface = "dashboard"
    /\ key_set \in BOOLEAN
    /\ slang_term = <<>>
    /\ sample_size = SLIDER_MIN
    /\ haiku_mock = FLAKY_HAIKU
    /\ sonnet_mock = FLAKY_SONNET
    /\ faults_left = 0
    /\ pc = "main"
    /\ client = "none"
    /\ stage = "none"
    /\ tasks = <<>>
    /\ sem_value = 0
    /\ results = <<>>
    /\ haiku_results = <<>>
    /\ parsed_results = <<>>
    /\ calls = NoCalls
    /\ valid_results = <<>>
    /\ top_meanings = <<>>
    /\ displayed = <<>>
    /\ letter_aggregation = <<>>
    /\ output = <<>>
    /\ exited = FALSE
    /\ exit_code = 0
    /\ letter_chart = NoLetterChart
    /\ session_state = <<>>
    /\ analyze_button = FALSE
    /\ shown = <<>>

NextDash ==
    \E raw \in DASH_RAW_TERMS : \E size \in DASH_SIZES : \E clicked \in BOOLEAN :
        \E outcome \in PipelineOutcomes(Strip(Upper(raw)), size) :
            Rerun(raw, size, clicked, outcome)

SpecDash == InitDash /\ [][NextDash]_vars

-----------------------------------------------------------------------------
(* Properties *)

Endpoints == {"haiku", "sonnet"}

\* C1: at every moment of a fan-out batch the operations holding a slot of the
\* gate, i.e. the remote calls in flight, number at most 10.
C1_InFlightWithinLimit ==
    /\ Cardinality(TasksIn("inflight")) <= SEMAPHORE_LIMIT
    /\ \A e \in Endpoints : calls[e].in_flight <= SEMAPHORE_LIMIT

\* a finished call has freed its slot, the queued task took it, the gate is full
C1_GateFullAfterHandOver ==
    /\ Len(tasks) > SEMAPHORE_LIMIT
    /\ TasksIn("done") # {}
    /\ tasks[Len(tasks)].st = "inflight"
    /\ Cardinality(TasksIn("inflight")) = SEMAPHORE_LIMIT

\* C2: gather returns one result per input operation, result i being the
\* outcome of operation i; a failed operation's slot holds the sentinel
\* ("Error: .." text, record with an error field), it is not dropped.
C2_OneResultPerOperationInOrder ==
    /\ pc = "haiku_gathered" =>
          /\ Len(results) = sample_size
          /\ \A i \in DOMAIN results :
                /\ results[i] = tasks[i].out
                /\ tasks[i].raised => StartsWith(results[i], ERROR_MARKER)
                /\ ~tasks[i].raised =>
                      \E reply \in haiku_mock : ~reply.raises /\ results[i] = reply.body
    /\ pc = "sonnet_gathered" =>
          /\ Len(results) = Len(haiku_results)
          /\ \A i \in DOMAIN results :
                /\ results[i] = tasks[i].out
                /\ tasks[i].arg = haiku_results[i]
                /\ tasks[i].raised => HasKey(results[i], "error")

\* a gathered generation batch whose first call raised and whose second returned
C2_MixedBatchGathered ==
    /\ pc = "haiku_gathered"
    /\ Len(results) >= 2
    /\ tasks[1].raised
    /\ ~tasks[2].raised

\* C3: no structuring call is issued while a generation call is in flight or
\* still to be issued.
C3_GenerationCompletesFirst ==
    (calls["sonnet"].issued > 0 \/ stage = "sonnet") =>
        /\ calls["haiku"].in_flight = 0
        /\ calls["haiku"].issued = sample_size

\* the dashboard pipeline with structuring calls in flight
C3_DashboardStructuring ==
    /\ surface = "dashboard"
    /\ calls["sonnet"].in_flight > 0
    /\ calls["haiku"].issued = sample_size

\* C4: the structuring stage receives the generation outputs that do not begin
\* with "Error:"; of N generation calls of which M failed exactly N - M reach it.
C4_ExactlySuccessfulOutputsSurvive ==
    pc \in {"sonnet", "sonnet_run", "sonnet_gathered"} =>
        /\ \A i \in DOMAIN haiku_results : ~StartsWith(haiku_results[i], ERROR_MARKER)
        /\ Len(haiku_results) = sample_size - calls["haiku"].raised

\* C5: parse_with_sonnet returns one record per input; the record of a call
\* that raised carries 'error', and the flagged records are still there when
\* the pipeline has returned.
C5_FailedCallsLeaveFlaggedRecords ==
    /\ pc = "sonnet_gathered" =>
          /\ Len(results) = Len(haiku_results)
          /\ \A i \in DOMAIN results : tasks[i].raised => HasKey(results[i], "error")
    /\ pc \in {"close", "summary", "exit"} /\ client # "none" =>
          /\ Len(parsed_results) = Len(haiku_results)
          /\ Cardinality({i \in DOMAIN parsed_results : HasKey(parsed_results[i], "error")})
                >= calls["sonnet"].raised

\* the pipeline has returned a list holding a flagged and an unflagged record
C5_FlaggedRecordReturned ==
    /\ pc = "summary"
    /\ calls["sonnet"].raised > 0
    /\ \E i, j \in DOMAIN parsed_results :
          /\ HasKey(parsed_results[i], "error")
          /\ ~HasKey(parsed_results[j], "error")

IsNoToolUse(r) == Get(r, "primary_meaning", "") = "Parse failed - no tool use"

\* C6: a response without a tool_use block gives a record with an error field
\* and no field data, which no aggregation counts.
C6_NoToolUseIsFlagged ==
    /\ \A i \in DOMAIN parsed_results :
          IsNoToolUse(parsed_results[i]) =>
              /\ HasKey(parsed_results[i], "error")
              /\ ~HasKey(parsed_results[i], "letter_breakdown")
    /\ \A j \in DOMAIN valid_results : ~IsNoToolUse(valid_results[j])

\* C7: the letter_breakdown schema has one sub-field per character position of
\* the term, and the dashboard aggregates one bucket per position.
C7_OneFieldPerPosition ==
    /\ (stage = "sonnet" /\ TasksIn("inflight") # {}) =>
          Cardinality(DOMAIN InputSchema(slang_term).properties.letter_breakdown.properties)
             = Len(slang_term)
    /\ (surface = "dashboard" /\ pc = "exit" /\ valid_results # <<>>) =>
          Cardinality(DOMAIN letter_aggregation) = Len(slang_term)

\* C8: a CLI run that ends on its error path (missing credential, pipeline
\* failure) exits non-zero and prints no summary.
C8_ErrorExitIsNonZero ==
    (exited /\ "error" \in ToSet(output)) =>
        /\ exit_code # 0
        /\ "summary" \notin ToSet(output)

\* C9: every record an aggregation counts has no error indicator and a
\* non-empty primary_meaning.
C9_OnlyValidRecordsCounted ==
    /\ \A j \in DOMAIN valid_results :
          /\ ~HasKey(valid_results[j], "error")
          /\ Get(valid_results[j], "primary_meaning", "") # ""
    /\ \A k \in DOMAIN top_meanings : top_meanings[k][1] # ""

Counted == MapGet(valid_results, "primary_meaning", "")
TopK == IF surface = "cli" THEN CLI_TOP_K ELSE DASH_TOP_N

\* C10: the aggregation lists each distinct primary value with its number of
\* occurrences, by descending count, equal counts in first-seen order, and
\* presents the first k of that order; two "You Only Live Once" and one
\* "Yelling On Live Outlets" give 2 and 1, the 2-count entry first.
C10_CountsByDescendingCountFirstSeen ==
    pc = "exit" =>
        LET counted == Counted
            distinct == ToSet(counted)
            occurrences == [v \in distinct |->
                               Cardinality({i \in DOMAIN counted : counted[i] = v})]
            first_seen == [v \in distinct |->
                              Min({i \in DOMAIN counted : counted[i] = v})]
            rank == [v \in distinct |->
                        1 + Cardinality({w \in distinct :
                                \/ occurrences[w] > occurrences[v]
                                \/ /\ occurrences[w] = occurrences[v]
                                   /\ first_seen[w] < first_seen[v]})]
        IN  /\ Len(top_meanings) =
                  IF Cardinality(distinct) < TopK THEN Cardinality(distinct) ELSE TopK
            /\ \A k \in DOMAIN top_meanings :
                  /\ top_meanings[k][1] \in distinct
                  /\ top_meanings[k][2] = occurrences[top_meanings[k][1]]
                  /\ rank[top_meanings[k][1]] = k
            /\ counted = <<MEANING_1, MEANING_1, MEANING_2>> =>
                  top_meanings = <<<<MEANING_1, 2>>, <<MEANING_2, 1>>>>

\* the CLI has summarised six distinct meanings, one of them seen twice and
\* seen first only after another
C10_TopFiveOfSix ==
    /\ pc = "exit"
    /\ surface = "cli"
    /\ Cardinality(ToSet(Counted)) > CLI_TOP_K
    /\ Len(top_meanings) = CLI_TOP_K
    /\ top_meanings[1][2] = 2
    /\ top_meanings[1][1] # Counted[1]
    /\ top_meanings[2][2] = 1

\* valid in the sense of the aggregator's contract: no error indicator and a
\* non-empty primary field
ContractValid(r) == ~HasKey(r, "error") /\ Get(r, "primary_meaning", "") # ""

\* C11: with no valid record in parsed_results the dashboard reports the
\* no-data state and computes no chart, and the CLI prints a summary with 0
\* valid results and no interpretation, off its error path.
C11_NoValidRecordsGivesEmptySummary ==
    (/\ pc = "exit"
     /\ client = "closed"
     /\ \A i \in DOMAIN parsed_results : ~ContractValid(parsed_results[i])) =>
        IF surface = "dashboard"
        THEN /\ output = <<"no_data">>
             /\ top_meanings = <<>>
             /\ displayed = <<>>
             /\ letter_aggregation = <<>>
        ELSE /\ output = <<"summary">>
             /\ valid_results = <<>>
             /\ top_meanings = <<>>

\* the slices of a pie account for every occurrence in `counts`: either every
\* value is shown under its own name with its own count, in rank order, or the
\* top-ranked ones are and the last slice ("Others") adds up all the rest
SlicesCoverAll(slices, counts) ==
    LET ranked == SortedByCount(counts)
        named == Len(slices) - 1
    IN  /\ SumCounts(slices) = SumCounts(counts)
        /\ IF Len(slices) = Len(ranked)
           THEN slices = ranked
           ELSE /\ Len(slices) < Len(ranked)
                /\ slices # <<>>
                /\ \A j \in 1..named : slices[j] = ranked[j]
                /\ slices[Len(slices)][2] = SumCounts(Drop(ranked, named))

\* C12: in both proportion charts of the dashboard the displayed slice values
\* sum to the number of aggregated occurrences and no category's count is
\* lost, whatever the number of distinct values.
C12_SlicesSumToTotal ==
    (pc = "exit" /\ surface = "dashboard" /\ output = <<"charts">>) =>
        /\ SlicesCoverAll(displayed,
                          Counter(MapGet(valid_results, "primary_meaning", "")))
        /\ letter_chart.letter \in DOMAIN letter_aggregation =>
              SlicesCoverAll(letter_chart.slices,
                             Counter(letter_aggregation[letter_chart.letter]))

\* C13 as stated: at most one results entry ever, and after an Analyze click
\* exactly the entry of that click's (term, sample size) when the run
\* succeeded, none when it failed.
C13_ClickLeavesOwnEntryOrNone ==
    /\ Cardinality(ResultsKeys(session_state)) <= 1
    /\ analyze_button =>
          IF output \in {<<"charts">>, <<"no_data">>}
          THEN ResultsKeys(session_state) = {ResultsKey(slang_term, sample_size)}
          ELSE ResultsKeys(session_state) = {}

\* C13, amended: at most one results entry ever, and after an Analyze click
\* made with a non-empty term exactly the entry of that click's (term, sample
\* size) when the run succeeded, none when it failed; a click made with an
\* empty term leaves the session as it was.
C13_ClickWithTermLeavesOwnEntryOrNone ==
    /\ Cardinality(ResultsKeys(session_state)) <= 1
    /\ (analyze_button /\ slang_term # <<>>) =>
          IF output \in {<<"charts">>, <<"no_data">>}
          THEN ResultsKeys(session_state) = {ResultsKey(slang_term, sample_size)}
          ELSE ResultsKeys(session_state) = {}

C13_ClickReplacedEntry ==
    /\ analyze_button
    /\ slang_term = <<"S", "M", "H">>
    /\ sample_size = SLIDER_MIN + SLIDER_STEP
    /\ ResultsKeys(session_state) = {ResultsKey(slang_term, sample_size)}
    /\ shown # <<>>
    /\ shown[1].parsed_results[1].term = slang_term

\* C16: in every rerun results are displayed only if the session holds an
\* entry for the selected (term, sample size), what is displayed is that entry
\* and it was computed for that term and size; the pipeline runs only in a
\* rerun with the Analyze button clicked, and a rerun without a click leaves
\* the results entries alone and displays nothing when none has the new key.
C16_NoStaleResultsNoUnrequestedRun ==
    [][LET results_key == ResultsKey(slang_term', sample_size')
       IN  /\ shown' # <<>> =>
                /\ results_key \in DOMAIN session_state'
                /\ shown'[1] = session_state'[results_key]
                /\ Len(shown'[1].haiku_results) = sample_size'
                /\ \A i \in DOMAIN shown'[1].parsed_results :
                      shown'[1].parsed_results[i].term = slang_term'
           /\ client' = "closed" => analyze_button'
           /\ ~analyze_button' =>
                /\ ResultsKeys(session_state') = ResultsKeys(session_state)
                /\ \A k \in ResultsKeys(session_state) : session_state'[k] = session_state[k]
                /\ results_key \notin DOMAIN session_state => shown' = <<>>
      ]_vars

C16_ChangedInputsShowNothing ==
    /\ pc = "exit"
    /\ ~analyze_button
    /\ slang_term # <<>>
    /\ ResultsKeys(session_state) # {}
    /\ ResultsKey(slang_term, sample_size) \notin DOMAIN session_state
    /\ shown = <<>>
    /\ output = <<>>
    /\ client = "none"

\* C14: every operation of a batch passes the gate once, issues one remote
\* call and gives its slot back once, whether its call returns or raises; a
\* failed call leaves the other operations to run to their end.
C14_EachOperationAttemptedOnce ==
    LET passed == TasksIn("inflight") \cup TasksIn("done")
        failed == {i \in DOMAIN tasks : tasks[i].raised}
    IN  /\ stage \in {"haiku", "sonnet"} =>
              /\ calls[stage].issued = Cardinality(passed)
              /\ calls[stage].in_flight = Cardinality(TasksIn("inflight"))
              /\ calls[stage].raised = Cardinality(failed)
              /\ failed \subseteq TasksIn("done")
              /\ pc \notin {"haiku", "sonnet"} =>
                    sem_value = SEMAPHORE_LIMIT - Cardinality(TasksIn("inflight"))
        /\ pc \in {"haiku_gathered", "sonnet_gathered"} =>
              /\ TasksIn("done") = DOMAIN tasks
              /\ calls[stage].issued = Len(tasks)
              /\ Len(results) = Len(tasks)
              /\ sem_value = SEMAPHORE_LIMIT

C14_FailureAmongElevenAttempts ==
    /\ pc = "haiku_gathered"
    /\ Len(tasks) > SEMAPHORE_LIMIT
    /\ \E i \in DOMAIN tasks : tasks[i].raised
    /\ calls["haiku"].issued = Len(tasks)
    /\ sem_value = SEMAPHORE_LIMIT

\* C15: under the fair schedule every batch, of any size, is gathered with all
\* slots of the gate free again, every operation queued at the gate is admitted,
\* every admitted operation finishes and gives its slot back, and a pipeline
\* that opened its client reaches the end of the run with the client closed.
C15_BatchesComplete ==
    /\ (pc \in {"haiku_run", "sonnet_run"}) ~>
          (/\ pc \in {"haiku_gathered", "sonnet_gathered"}
           /\ TasksIn("done") = DOMAIN tasks
           /\ sem_value = SEMAPHORE_LIMIT)
    /\ (TasksIn("waiting") # {}) ~> (TasksIn("waiting") = {})
    /\ (client = "open") ~> (pc = "summary" /\ client = "closed")

C15_QueuedBatchClosed ==
    /\ pc = "summary"
    /\ client = "closed"
    /\ sample_size > SEMAPHORE_LIMIT
    /\ calls["sonnet"].issued + calls["haiku"].raised = sample_size

====
